---- MODULE Spec2Model ----
\* Model of main.cpp: an instanced-rendering demo (GLFW + OpenGL).
\* The state is main's locals and the file's globals, plus the part of the GL
\* context that the program's calls act on (object names, buffer stores,
\* polygon mode, current program) and the text written to standard output.
\* Angles and times are fixed-point: TwoPi ticks make one turn.
EXTENDS Integers, Sequences, FiniteSets, TLC

\* ---------------------------------------------------------------- bounds
NumInstances == 2      \* stands for instances_index (1000 in the source)
RandMax      == 1      \* rndFloat results are drawn from 0..RandMax
MaxTime      == 5      \* last value glfwGetTime is allowed to return
MaxKeyEvents == 2      \* key events delivered over the whole run

\* ------------------------------------------------------------ constants
TwoPi     == 2         \* 2.0f * glm::pi<float>() in ticks
ScaleInit == 1         \* 0.05f, the scale-x / scale-y of every instance

Keys       == {"SPACE", "T", "OTHER"}
KeyActions == {"PRESS", "RELEASE", "REPEAT"}

VARIABLES
    pc,                 \* position of main
    instances,          \* host array of instance positions
    instance_colors,    \* host array of instance colors
    instance_models,    \* host array of [x, y, z] = scale-x, scale-y, rotation
    handles,            \* main's locals VAO, VBO, EBO, iPosVBO, iColorVBO, iModelVBO
    circleShader, rectangleShader, activeShader,
    WIREFRAME_ENABLED,
    rotationAngle, lastFrameTime,
    glVAOs,             \* vertex array names generated
    glBuffers,          \* buffer name -> data store
    glShaders,          \* shader object names created
    glPrograms,         \* program name -> [attached, linkCalled]
    glDeleted,          \* names passed to glDeleteShader
    polygonMode,        \* GL polygon mode
    currentProgram,     \* argument of the latest glUseProgram
    uniforms,           \* <<program, name>> of every glUniform* call
    stdout,             \* diagnostics printed so far
    shouldClose,        \* the window's close flag
    \* history variables, read only by the properties
    startup,            \* instance data as assigned by lines 326-334
    frameOps,           \* operations of the current loop iteration, in order
    drawnProgram,       \* current program at the latest draw call
    loopEntryObjects,   \* GL objects alive when the loop was entered
    keyEvents, spacePresses, tPresses

vars == <<pc, instances, instance_colors, instance_models, handles,
          circleShader, rectangleShader, activeShader, WIREFRAME_ENABLED,
          rotationAngle, lastFrameTime, glVAOs, glBuffers, glShaders,
          glPrograms, glDeleted, polygonMode, currentProgram, uniforms,
          stdout, shouldClose, startup, frameOps, drawnProgram,
          loopEntryObjects, keyEvents, spacePresses, tPresses>>

mainLocals == <<instances, instance_colors, instance_models, handles,
                rotationAngle, lastFrameTime>>
globals    == <<circleShader, rectangleShader, activeShader, WIREFRAME_ENABLED>>
glObjects  == <<glVAOs, glBuffers, glShaders, glPrograms, glDeleted>>
glState    == <<polygonMode, currentProgram, uniforms>>
history    == <<startup, frameOps, drawnProgram, loopEntryObjects,
                keyEvents, spacePresses, tPresses>>

Instance == 1..NumInstances

\* A name the GL has not handed out yet (glGen*, glCreate*).
GenName(used) == CHOOSE n \in 1..(Cardinality(used) + 1) : n \notin used

\* The objects the GL context holds.
LiveObjects == [vaos     |-> glVAOs,
                buffers  |-> DOMAIN glBuffers,
                shaders  |-> glShaders,
                programs |-> DOMAIN glPrograms,
                deleted  |-> glDeleted]

Init ==
    /\ pc = "start"
    /\ instances = <<>>
    /\ instance_colors = <<>>
    /\ instance_models = <<>>
    /\ handles = [h \in {"VAO", "VBO", "EBO", "iPosVBO", "iColorVBO", "iModelVBO"} |-> 0]
    /\ circleShader = 0
    /\ rectangleShader = 0
    /\ activeShader = 0
    /\ WIREFRAME_ENABLED = FALSE
    /\ rotationAngle = 0
    /\ lastFrameTime = 0
    /\ glVAOs = {}
    /\ glBuffers = << >>
    /\ glShaders = {}
    /\ glPrograms = << >>
    /\ glDeleted = {}
    /\ polygonMode = "GL_FILL"
    /\ currentProgram = 0
    /\ uniforms = {}
    /\ stdout = <<>>
    /\ shouldClose = FALSE
    /\ startup = <<>>
    /\ frameOps = <<>>
    /\ drawnProgram = 0
    /\ loopEntryObjects = <<>>
    /\ keyEvents = 0
    /\ spacePresses = 0
    /\ tPresses = 0

\* ------------------------------------------------- startup: host arrays
\* Lines 321-334: every instance gets a random position and color and the
\* model (0.05, 0.05, 0.0).
InitInstances ==
    /\ pc = "start"
    /\ \E p \in [Instance -> 0..RandMax], c \in [Instance -> 0..RandMax] :
         /\ instances' = [i \in Instance |-> p[i]]
         /\ instance_colors' = [i \in Instance |-> c[i]]
         /\ instance_models' = [i \in Instance |-> [x |-> ScaleInit, y |-> ScaleInit, z |-> 0]]
         /\ startup' = [pos |-> p, col |-> c]
    /\ pc' = "buffers"
    /\ UNCHANGED <<handles, rotationAngle, lastFrameTime, globals, glObjects,
                   glState, stdout, shouldClose, frameOps, drawnProgram,
                   loopEntryObjects, keyEvents, spacePresses, tPresses>>

\* ------------------------------------------------ startup: GPU buffers
\* Lines 186-205, called at 341: one vertex array, one buffer holding the
\* four corner vertices.
setupBuffers ==
    /\ pc = "buffers"
    /\ LET vao == GenName(glVAOs)
           vbo == GenName(DOMAIN glBuffers)
       IN /\ glVAOs' = glVAOs \cup {vao}
          /\ glBuffers' = glBuffers @@ (vbo :> "vertices")
          /\ handles' = [handles EXCEPT !["VAO"] = vao, !["VBO"] = vbo]
    /\ pc' = "ebo"
    /\ UNCHANGED <<instances, instance_colors, instance_models, rotationAngle,
                   lastFrameTime, globals, glShaders, glPrograms, glDeleted,
                   glState, stdout, shouldClose, history>>

\* Lines 207-219, called at 345: the index buffer.
createEBO ==
    /\ pc = "ebo"
    /\ LET ebo == GenName(DOMAIN glBuffers)
       IN /\ glBuffers' = glBuffers @@ (ebo :> "indices")
          /\ handles' = [handles EXCEPT !["EBO"] = ebo]
    /\ pc' = "posVBO"
    /\ UNCHANGED <<instances, instance_colors, instance_models, rotationAngle,
                   lastFrameTime, globals, glVAOs, glShaders, glPrograms,
                   glDeleted, glState, stdout, shouldClose, history>>

\* Lines 221-238: a per-instance buffer filled with the host array `data`.
createVBO(at, h, data, next) ==
    /\ pc = at
    /\ LET vbo == GenName(DOMAIN glBuffers)
       IN /\ glBuffers' = glBuffers @@ (vbo :> data)
          /\ handles' = [handles EXCEPT ![h] = vbo]
    /\ pc' = next
    /\ UNCHANGED <<instances, instance_colors, instance_models, rotationAngle,
                   lastFrameTime, globals, glVAOs, glShaders, glPrograms,
                   glDeleted, glState, stdout, shouldClose, history>>

\* Lines 347-360: the three calls of createVBO in main.
CreatePosVBO   == createVBO("posVBO", "iPosVBO", instances, "colorVBO")
CreateColorVBO == createVBO("colorVBO", "iColorVBO", instance_colors, "modelVBO")
CreateModelVBO == createVBO("modelVBO", "iModelVBO", instance_models, "compileCircle")

\* ----------------------------------------------------- shader compiler
\* Lines 146-152, 160-166, 175-180: what compileShader prints for the three
\* status results it reads back.
Diagnostics(vsOk, fsOk, linkOk) ==
    (IF vsOk THEN <<>> ELSE <<"vertex shader failed to compile">>)
    \o (IF fsOk THEN <<>> ELSE <<"fragment shader failed to compile">>)
    \o (IF linkOk THEN <<>> ELSE <<"shaders failed to link">>)

\* Variant: a failed compile or link yields no program.
ReturnedProgram_ZeroOnFailure(prog, vsOk, fsOk, linkOk) ==
    IF vsOk /\ fsOk /\ linkOk THEN prog ELSE 0

\* Line 183: the value compileShader returns.
ReturnedProgram(prog, vsOk, fsOk, linkOk) == prog

\* Variant: the program is deleted together with its shaders.
DeletedByCompile_WithProgram(vs, fs, prog) == {vs, fs, prog}

\* Lines 181-182: the objects compileShader deletes.
DeletedByCompile(vs, fs, prog) == {vs, fs}

\* Lines 135-184: compileShader as a whole; vsOk, fsOk and linkOk are the
\* statuses the GL reports. The result is the new GL objects, the output and
\* the returned handle.
compileShader(vsOk, fsOk, linkOk) ==
    LET vs   == GenName(glShaders \cup DOMAIN glPrograms)
        fs   == GenName(glShaders \cup DOMAIN glPrograms \cup {vs})
        prog == GenName(glShaders \cup DOMAIN glPrograms \cup {vs, fs})
    IN [shaders  |-> glShaders \cup {vs, fs},
        programs |-> glPrograms @@ (prog :> [attached |-> {vs, fs}, linkCalled |-> TRUE]),
        deleted  |-> glDeleted \cup DeletedByCompile(vs, fs, prog),
        out      |-> stdout \o Diagnostics(vsOk, fsOk, linkOk),
        ret      |-> ReturnedProgram(prog, vsOk, fsOk, linkOk)]

\* Line 364.
CompileCircle ==
    /\ pc = "compileCircle"
    /\ \E vsOk \in BOOLEAN, fsOk \in BOOLEAN, linkOk \in BOOLEAN :
         LET r == compileShader(vsOk, fsOk, linkOk)
         IN /\ glShaders' = r.shaders
            /\ glPrograms' = r.programs
            /\ glDeleted' = r.deleted
            /\ stdout' = r.out
            /\ circleShader' = r.ret
    /\ pc' = "compileRectangle"
    /\ UNCHANGED <<mainLocals, rectangleShader, activeShader, WIREFRAME_ENABLED,
                   glVAOs, glBuffers, glState, shouldClose, history>>

\* Line 365.
CompileRectangle ==
    /\ pc = "compileRectangle"
    /\ \E vsOk \in BOOLEAN, fsOk \in BOOLEAN, linkOk \in BOOLEAN :
         LET r == compileShader(vsOk, fsOk, linkOk)
         IN /\ glShaders' = r.shaders
            /\ glPrograms' = r.programs
            /\ glDeleted' = r.deleted
            /\ stdout' = r.out
            /\ rectangleShader' = r.ret
    /\ pc' = "programs"
    /\ UNCHANGED <<mainLocals, circleShader, activeShader, WIREFRAME_ENABLED,
                   glVAOs, glBuffers, glState, shouldClose, history>>

\* Lines 367-373: the uniforms of both programs, then the rectangle program
\* becomes the active one.
SetupPrograms ==
    /\ pc = "programs"
    /\ uniforms' = uniforms \cup {<<circleShader, "projection">>,
                                  <<circleShader, "resolution">>,
                                  <<rectangleShader, "projection">>}
    /\ currentProgram' = rectangleShader
    /\ activeShader' = rectangleShader
    /\ pc' = "timer"
    /\ UNCHANGED <<mainLocals, circleShader, rectangleShader, WIREFRAME_ENABLED,
                   glObjects, polygonMode, stdout, shouldClose, history>>

\* Lines 375-377: the angle starts at 0 and the clock is read once.
InitTimer ==
    /\ pc = "timer"
    /\ rotationAngle' = 0
    /\ \E t \in 0..1 : lastFrameTime' = t
    /\ loopEntryObjects' = LiveObjects
    /\ pc' = "loopTest"
    /\ UNCHANGED <<instances, instance_colors, instance_models, handles, globals,
                   glObjects, glState, stdout, shouldClose, startup, frameOps,
                   drawnProgram, keyEvents, spacePresses, tPresses>>

\* ------------------------------------------------------ animation loop
LoopPcs == {"loopTest", "advance", "upload", "clear", "use", "draw", "swap", "poll"}

\* Line 379: the loop condition.
LoopTest ==
    /\ pc = "loopTest"
    /\ pc' = IF shouldClose THEN "terminate" ELSE "advance"
    /\ frameOps' = <<>>
    /\ UNCHANGED <<mainLocals, globals, glObjects, glState, stdout, shouldClose,
                   startup, drawnProgram, loopEntryObjects, keyEvents,
                   spacePresses, tPresses>>

\* Lines 263-269: getDeltaTima, given the clock value glfwGetTime returns.
getDeltaTima(currentFrameTime) == currentFrameTime - lastFrameTime

\* Lines 382-383: the angle after one frame that took deltaTime
\* (rotationSpeed is 1.0f).
AdvanceAngle(angle, deltaTime) ==
    LET a == angle + deltaTime
    IN IF a >= TwoPi THEN a - TwoPi ELSE a

\* Variant: only the first instance is rotated.
RotateAll_FirstOnly(models, angle) == [models EXCEPT ![1].z = angle]

\* Lines 384-387: the rotation written to every instance.
RotateAll(models, angle) ==
    [i \in DOMAIN models |-> [models[i] EXCEPT !.z = angle]]

\* Lines 382-387: the clock is read, the angle advanced and wrapped, and the
\* host array rewritten.
AdvanceRotation ==
    /\ pc = "advance"
    /\ \E now \in lastFrameTime..MaxTime :
         /\ rotationAngle' = AdvanceAngle(rotationAngle, getDeltaTima(now))
         /\ lastFrameTime' = now
    /\ instance_models' = RotateAll(instance_models, rotationAngle')
    /\ frameOps' = Append(frameOps, "advance")
    /\ pc' = "upload"
    /\ UNCHANGED <<instances, instance_colors, handles, globals, glObjects,
                   glState, stdout, shouldClose, startup, drawnProgram,
                   loopEntryObjects, keyEvents, spacePresses, tPresses>>

\* Lines 388-390: glBufferSubData rewrites the store of iModelVBO.
UploadModels ==
    /\ pc = "upload"
    /\ glBuffers' = [glBuffers EXCEPT ![handles["iModelVBO"]] = instance_models]
    /\ frameOps' = Append(frameOps, "upload")
    /\ pc' = "clear"
    /\ UNCHANGED <<mainLocals, globals, glVAOs, glShaders, glPrograms, glDeleted,
                   glState, stdout, shouldClose, startup, drawnProgram,
                   loopEntryObjects, keyEvents, spacePresses, tPresses>>

\* Line 392.
Clear ==
    /\ pc = "clear"
    /\ frameOps' = Append(frameOps, "clear")
    /\ pc' = "use"
    /\ UNCHANGED <<mainLocals, globals, glObjects, glState, stdout, shouldClose,
                   startup, drawnProgram, loopEntryObjects, keyEvents,
                   spacePresses, tPresses>>

\* Variant: the draw always uses the rectangle program.
UseProgramArg_Fixed == rectangleShader

\* Line 393: the argument of glUseProgram.
UseProgramArg == activeShader

\* Line 393.
UseProgram ==
    /\ pc = "use"
    /\ currentProgram' = UseProgramArg
    /\ frameOps' = Append(frameOps, "use")
    /\ pc' = "draw"
    /\ UNCHANGED <<mainLocals, globals, glObjects, polygonMode, uniforms, stdout,
                   shouldClose, startup, drawnProgram, loopEntryObjects,
                   keyEvents, spacePresses, tPresses>>

\* Lines 394-396: the instanced draw, with the program current at the call.
Draw ==
    /\ pc = "draw"
    /\ drawnProgram' = currentProgram
    /\ frameOps' = Append(frameOps, "draw")
    /\ pc' = "swap"
    /\ UNCHANGED <<mainLocals, globals, glObjects, glState, stdout, shouldClose,
                   startup, loopEntryObjects, keyEvents, spacePresses, tPresses>>

\* Line 397.
SwapBuffers ==
    /\ pc = "swap"
    /\ pc' = "poll"
    /\ UNCHANGED <<mainLocals, globals, glObjects, glState, stdout, shouldClose,
                   history>>

\* -------------------------------------------------------- input handling
\* Variant: the action of the event is not tested.
IsSpacePress_AnyAction(key, action) == key = "SPACE"

\* Line 279: the condition of the wireframe toggle.
IsSpacePress(key, action) == key = "SPACE" /\ action = "PRESS"

\* Variant: the key of the event is not tested.
IsTPress_AnyKey(key, action) == action = "PRESS"

\* Line 292: the condition of the shader toggle.
IsTPress(key, action) == key = "T" /\ action = "PRESS"

\* Variant: the two branches set each other's mode.
TogglePolygonMode_Swapped(enabled) == IF enabled THEN "GL_LINE" ELSE "GL_FILL"

\* Lines 281-290: the polygon mode set when wireframe was `enabled` before.
TogglePolygonMode(enabled) == IF enabled THEN "GL_FILL" ELSE "GL_LINE"

\* Variant: the else branch assigns a buffer handle.
ToggleShader_WrongHandle(active) ==
    IF active # rectangleShader THEN rectangleShader ELSE handles["iModelVBO"] + 10

\* Variant: the comparison is made against the circle program.
ToggleShader_Stuck(active) ==
    IF active # circleShader THEN rectangleShader ELSE circleShader

\* Lines 294-295: the program that becomes active.
ToggleShader(active) ==
    IF active # rectangleShader THEN rectangleShader ELSE circleShader

\* Lines 277-297: keyCallback, run by glfwPollEvents (line 398) for one
\* pending key event.
keyCallback(key, action) ==
    /\ pc = "poll"
    /\ keyEvents < MaxKeyEvents
    /\ IF IsSpacePress(key, action)
         THEN /\ WIREFRAME_ENABLED' = ~WIREFRAME_ENABLED
              /\ polygonMode' = TogglePolygonMode(WIREFRAME_ENABLED)
         ELSE UNCHANGED <<WIREFRAME_ENABLED, polygonMode>>
    /\ IF IsTPress(key, action)
         THEN activeShader' = ToggleShader(activeShader)
         ELSE UNCHANGED activeShader
    /\ keyEvents' = keyEvents + 1
    /\ spacePresses' = spacePresses + (IF key = "SPACE" /\ action = "PRESS" THEN 1 ELSE 0)
    /\ tPresses' = tPresses + (IF key = "T" /\ action = "PRESS" THEN 1 ELSE 0)
    /\ UNCHANGED <<pc, mainLocals, circleShader, rectangleShader, glObjects,
                   currentProgram, uniforms, stdout, shouldClose, startup,
                   frameOps, drawnProgram, loopEntryObjects>>

KeyEvent == \E key \in Keys, action \in KeyActions : keyCallback(key, action)

\* Line 398: a close request seen by glfwPollEvents sets the close flag.
CloseRequest ==
    /\ pc = "poll"
    /\ ~shouldClose
    /\ shouldClose' = TRUE
    /\ UNCHANGED <<pc, mainLocals, globals, glObjects, glState, stdout, history>>

\* Line 398: glfwPollEvents returns.
PollReturn ==
    /\ pc = "poll"
    /\ pc' = "loopTest"
    /\ UNCHANGED <<mainLocals, globals, glObjects, glState, stdout, shouldClose,
                   history>>

\* Lines 400-401.
Terminate ==
    /\ pc = "terminate"
    /\ pc' = "done"
    /\ UNCHANGED <<mainLocals, globals, glObjects, glState, stdout, shouldClose,
                   history>>

Next ==
    \/ InitInstances
    \/ setupBuffers
    \/ createEBO
    \/ CreatePosVBO
    \/ CreateColorVBO
    \/ CreateModelVBO
    \/ CompileCircle
    \/ CompileRectangle
    \/ SetupPrograms
    \/ InitTimer
    \/ LoopTest
    \/ AdvanceRotation
    \/ UploadModels
    \/ Clear
    \/ UseProgram
    \/ Draw
    \/ SwapBuffers
    \/ KeyEvent
    \/ CloseRequest
    \/ PollReturn
    \/ Terminate

Spec == Init /\ [][Next]_vars

\* =========================================================== properties
Running  == pc \in LoopPcs \cup {"terminate"}
Updated  == pc \in {"clear", "use", "draw", "swap", "poll"}
FullFrame == <<"advance", "upload", "clear", "use", "draw">>
AllDiagnostics == Diagnostics(FALSE, FALSE, FALSE) \o Diagnostics(FALSE, FALSE, FALSE)

\* C1: once the render loop is entered, and after any key events,
\* activeShader is one of the two programs created at startup (circleShader
\* or rectangleShader) and never any other handle.
C1_ActiveIsCircleOrRectangle ==
    Running =>
        /\ activeShader \in {circleShader, rectangleShader}
        /\ {circleShader, rectangleShader} \subseteq DOMAIN glPrograms

C1_Witness == pc = "loopTest" /\ tPresses = 1 /\ activeShader = circleShader

\* C2: with the rectangle program active at loop entry, after k T-press
\* events the active program is the rectangle program when k is even and the
\* circle program when k is odd (and the two are different programs).
C2_ActiveFollowsParity ==
    Running =>
        /\ circleShader # rectangleShader
        /\ activeShader = IF tPresses % 2 = 0 THEN rectangleShader ELSE circleShader

C2_Witness == pc = "poll" /\ tPresses = 2 /\ activeShader = rectangleShader

\* C3: the polygon mode is GL_LINE exactly when WIREFRAME_ENABLED is true,
\* and that is exactly when the number of space presses so far is odd.
C3_WireframeFollowsParity ==
    /\ polygonMode \in {"GL_FILL", "GL_LINE"}
    /\ (polygonMode = "GL_LINE") <=> WIREFRAME_ENABLED
    /\ WIREFRAME_ENABLED <=> (spacePresses % 2 = 1)

C3_Witness == spacePresses = 2 /\ polygonMode = "GL_FILL" /\ ~WIREFRAME_ENABLED

\* C4: a space press leaves activeShader unchanged, and a T press leaves
\* WIREFRAME_ENABLED and the polygon mode unchanged.
C4_TogglesIndependent ==
    [][/\ (spacePresses' = spacePresses + 1) => (activeShader' = activeShader)
       /\ (tPresses' = tPresses + 1) => UNCHANGED <<WIREFRAME_ENABLED, polygonMode>>]_vars

C4_Witness ==
    /\ spacePresses = 1
    /\ tPresses = 1
    /\ WIREFRAME_ENABLED
    /\ activeShader = circleShader

\* C5: every loop iteration does the angle advance, the buffer rewrite, the
\* clear and exactly one draw, in this order; the draw uses the program that
\* is active at that moment, and activeShader changes only while
\* glfwPollEvents runs at the end of the iteration, never between
\* glUseProgram and the draw.
C5_FrameOrderAndDrawProgram ==
    /\ [](/\ (pc = "draw") => (currentProgram = activeShader)
          /\ (pc \in {"swap", "poll"}) => (frameOps = FullFrame)
          /\ (pc = "swap") => (drawnProgram = activeShader)
          /\ (pc = "loopTest" /\ frameOps # <<>>) => (frameOps = FullFrame))
    /\ [][(Running /\ activeShader' # activeShader) => (pc = "poll" /\ pc' = "poll")]_vars

C5_Witness == pc = "swap" /\ tPresses = 1 /\ drawnProgram = circleShader

\* C6: after the per-frame update every instance carries the rotation
\* rotationAngle in the host array and in the uploaded buffer, and every
\* instance's position, color and scale keep their startup values for the
\* whole run.
C6_RotationSharedRestFixed ==
    /\ Updated =>
         \A i \in Instance :
            /\ instance_models[i].z = rotationAngle
            /\ glBuffers[handles["iModelVBO"]][i].z = rotationAngle
    /\ (pc # "start") =>
         /\ DOMAIN instance_models = Instance
         /\ \A i \in Instance :
              /\ instances[i] = startup.pos[i]
              /\ instance_colors[i] = startup.col[i]
              /\ instance_models[i].x = ScaleInit
              /\ instance_models[i].y = ScaleInit
    /\ Running =>
         /\ glBuffers[handles["iPosVBO"]] = instances
         /\ glBuffers[handles["iColorVBO"]] = instance_colors
         /\ \A i \in Instance :
              /\ glBuffers[handles["iModelVBO"]][i].x = ScaleInit
              /\ glBuffers[handles["iModelVBO"]][i].y = ScaleInit

C6_Witness ==
    /\ pc = "clear"
    /\ rotationAngle = 1
    /\ keyEvents > 0
    /\ \A i \in Instance : glBuffers[handles["iModelVBO"]][i].z = 1

\* C7: whatever compile and link statuses are reported, compileShader
\* attaches both shaders, links and returns the program it created, and main
\* goes on to set the uniforms, make the rectangle program active and run
\* the loop.
C7_FailuresOnlyPrint ==
    /\ (pc \notin {"start", "buffers", "ebo", "posVBO", "colorVBO", "modelVBO",
                   "compileCircle"}) =>
         /\ circleShader \in DOMAIN glPrograms
         /\ Cardinality(glPrograms[circleShader].attached) = 2
         /\ glPrograms[circleShader].linkCalled
    /\ (pc \in {"programs", "timer"} \cup LoopPcs \cup {"terminate", "done"}) =>
         /\ rectangleShader \in DOMAIN glPrograms
         /\ Cardinality(glPrograms[rectangleShader].attached) = 2
         /\ glPrograms[rectangleShader].linkCalled
    /\ (pc \in {"timer"} \cup LoopPcs \cup {"terminate", "done"}) =>
         uniforms = {<<circleShader, "projection">>,
                     <<circleShader, "resolution">>,
                     <<rectangleShader, "projection">>}
    /\ (pc = "timer") => (activeShader = rectangleShader)
    /\ (pc = "loopTest" /\ tPresses = 0) => (activeShader = rectangleShader)

C7_Witness == pc = "draw" /\ stdout = AllDiagnostics

\* C8 as stated: the GL objects are the same throughout the loop, and no GPU
\* resource is explicitly deleted at any point of the run.
C8_NothingEverDeleted ==
    /\ glDeleted = {}
    /\ Running => (LiveObjects = loopEntryObjects)

\* C8 amended: the GL objects are the same throughout the loop; the only
\* explicit deletions are compileShader's glDeleteShader calls on the shader
\* objects at startup, and no buffer, vertex array or program is deleted.
C8_OnlyShadersDeletedAtStartup ==
    /\ glDeleted \subseteq glShaders
    /\ glDeleted \cap DOMAIN glPrograms = {}
    /\ Running =>
         /\ LiveObjects = loopEntryObjects
         /\ Cardinality(DOMAIN glBuffers) = 5
         /\ Cardinality(glVAOs) = 1
         /\ Cardinality(DOMAIN glPrograms) = 2

C8_Witness ==
    /\ pc = "poll"
    /\ keyEvents > 0
    /\ lastFrameTime > 1
    /\ Cardinality(glDeleted) = 4

\* C9: a key event that is not a press of space or T leaves
\* WIREFRAME_ENABLED, the polygon mode and activeShader unchanged.
C9_OtherEventsChangeNothing ==
    [][(/\ keyEvents' = keyEvents + 1
        /\ spacePresses' = spacePresses
        /\ tPresses' = tPresses)
       => UNCHANGED <<WIREFRAME_ENABLED, polygonMode, activeShader>>]_vars

C9_Witness ==
    /\ pc = "poll"
    /\ keyEvents = 2
    /\ spacePresses = 0
    /\ tPresses = 0

\* C10: after the per-frame update, for any non-negative elapsed time,
\* 0 <= rotationAngle < 2*pi.
C10_AngleWithinOneTurn ==
    Running => (0 <= rotationAngle /\ rotationAngle < TwoPi)

====
